---- MODULE Spec2Model ----
(***************************************************************************)
(* A model of ytknow's text core, src/src/ytknow/cleaning.py:              *)
(*   chunk_text         the overlapping, sentence-snapping chunker          *)
(*   clean_vtt_content  the caption normalizer (tag stripping, line         *)
(*                      filtering, rolling-window deduplication, reflow)    *)
(* A Python str is a sequence of one-character strings; Python's indexing   *)
(* and slicing (negative indices included) are modelled as Python defines   *)
(* them.                                                                    *)
(***************************************************************************)
EXTENDS Integers, Sequences, FiniteSets, TLC

VARIABLES
    text,          \* chunk_text: the argument text
    chunk_size,    \* chunk_text: the argument chunk_size
    overlap,       \* chunk_text: the argument overlap
    start,         \* chunk_text: the cursor
    chunks,        \* chunk_text: the output list
    slices,        \* history: the (start, end) of text[start:end], one per iteration
    pc,            \* chunk_text: "call", "loop", "done" (returned), "raised" (IndexError)
    vtt_text,      \* clean_vtt_content: the argument, then the text without tags
    lines,         \* clean_vtt_content: vtt_text.splitlines()
    clean_lines,   \* clean_vtt_content: the lines that survive filtering
    final_text_chunks, \* clean_vtt_content: the accumulator of the deduplication
    idx,           \* clean_vtt_content: how many elements the running for-loop has taken
    result,        \* clean_vtt_content: the returned string
    cpc,           \* clean_vtt_content: "call", "filter", "dedup", "format", "done"
    returned,      \* history: the results of the calls made so far, in order
    frames,        \* interleaved calls: the locals of each call, as last suspended
    active,        \* interleaved calls: the call that is running
    args,          \* interleaved calls: what each call was called with
    skip_media,    \* process_url: the argument skip_media
    enable_comments, \* process_url: the argument enable_comments
    total_files,   \* process_url: len(files_to_process)
    file_i,        \* process_url: i, the number of the file the loop is at
    clean_text,    \* process_url: the cleaned text of the file
    safe_title,    \* process_url: the title of the file, made safe for a path
    url_chunks,    \* process_url: chunks, what chunk_text returned
    url_idx,       \* process_url: idx, how many chunks the for-loop has taken
    j_master,      \* process_url: the records written to the master JSONL
    j_chunks,      \* process_url: the records written to the chunks JSONL
    m_txt,         \* process_url: the entries written to the master text file
    m_md,          \* process_url: the entries written to the master markdown file
    written,       \* process_url: the directories and files made under videos/
    processed_count, \* process_url: processed_count
    upc,           \* process_url: "file", "persist", "chunks", "comments", "done"
    min_likes,     \* download_video_comments: the argument min_likes
    filter_keywords, \* download_video_comments: the argument filter_keywords
    fmt,           \* download_video_comments: the argument format
    data,          \* download_video_comments: what extract_comments_async returned
    processed,     \* download_video_comments: what process_comment_data returned
    dir_made,      \* save_output: output_dir has been made
    out_files,     \* save_output: the files written to output_dir
    success,       \* video: what download_video_comments returned
    message,       \* video: the line printed
    dpc            \* video: "extract", "process", "save", "returned", "done"

chunkVars == <<text, chunk_size, overlap, start, chunks, slices, pc>>
cleanVars == <<vtt_text, lines, clean_lines, final_text_chunks, idx, result, cpc, returned>>
parVars == <<frames, active, args>>
urlVars == <<skip_media, enable_comments, total_files, file_i, clean_text, safe_title,
             url_chunks, url_idx, j_master, j_chunks, m_txt, m_md, written,
             processed_count, upc>>
comVars == <<min_likes, filter_keywords, fmt, data, processed, dir_made, out_files,
             success, message, dpc>>
envVars == <<parVars, urlVars, comVars>>
vars == <<chunkVars, cleanVars, envVars>>

----------------------------------------------------------------------------
(* Bounds of the model *)

MaxLen == 12
MaxSpecial == 1
MaxChunkSize == 10
MaxArgLen == 3
MaxArg == 6
MaxLines == 4
MaxRawLines == 3
MaxWrapLines == 3
MaxBuildLines == 3
MaxExampleArg == 15
MaxCalls == 2
MaxFiles == 1
MaxDeepLen == 15
MaxDeepChunk == 14
MaxDeepEnds == 2
MinDeepChunk == 10
MaxRunLen == 50
MaxFilterLines == 3
MaxMarkupLines == 3
MaxComments == 2
MaxLikes == 1

\* The loop of chunk_text may never exit; the model stops following it here.
\* A run that exits does so within Len(text) iterations (its cursor grows).
MaxIter(t) == Len(t) + 2

----------------------------------------------------------------------------
(* Characters *)

\* cleaning.py:79, the characters a cut snaps to
Terminals == {".", "!", "?", "\n"}

\* str.strip() with no argument removes whitespace
Whitespace == {" ", "\t", "\n", "\r"}

Letter == "x"
Specials == {" ", ".", "\n"}

Max(a, b) == IF a >= b THEN a ELSE b
Min(a, b) == IF a <= b THEN a ELSE b

\* the least and the greatest member of a non-empty set of integers
Least(S) == CHOOSE k \in S : \A m \in S : k <= m
Greatest(S) == CHOOSE k \in S : \A m \in S : m <= k

----------------------------------------------------------------------------
(* Python str operations *)

\* s[i] is defined for -len(s) <= i < len(s); anything else raises IndexError
IndexOk(s, i) == -Len(s) <= i /\ i < Len(s)

PyIndex(s, i) == IF i >= 0 THEN s[i + 1] ELSE s[Len(s) + i + 1]

\* a slice bound: negative counts from the end, then clamped to 0..len(s)
PyBound(s, i) == IF i < 0 THEN Max(Len(s) + i, 0) ELSE Min(i, Len(s))

\* s[a:b]
PySlice(s, a, b) == SubSeq(s, PyBound(s, a) + 1, PyBound(s, b))

RECURSIVE LStrip(_)
LStrip(s) == IF s # <<>> /\ Head(s) \in Whitespace THEN LStrip(Tail(s)) ELSE s

RECURSIVE RStrip(_)
RStrip(s) ==
    IF s # <<>> /\ s[Len(s)] \in Whitespace THEN RStrip(SubSeq(s, 1, Len(s) - 1)) ELSE s

\* s.strip()
Strip(s) == RStrip(LStrip(s))

----------------------------------------------------------------------------
(* chunk_text *)

\* int(chunk_size * 0.3): the product is floor(3 * chunk_size / 10) for every
\* chunk_size >= 0 (the rounding of 0.3 never crosses an integer), and int()
\* truncates towards zero for a negative one
Lookback(cs) == IF cs >= 0 THEN (3 * cs) \div 10 ELSE 0 - ((3 * (0 - cs)) \div 10)

\* ScanBack that keeps scanning after a hit: the cut goes to the terminal
\* farthest from i
ScanBackFarthest(s, i, lo) ==
    LET stops == {k \in (lo + 1)..i : ~IndexOk(s, k) \/ PyIndex(s, k) \in Terminals} IN
    IF stops = {} THEN [raised |-> FALSE, split_point |-> -1]
    ELSE IF ~IndexOk(s, Greatest(stops)) THEN [raised |-> TRUE, split_point |-> -1]
    ELSE [raised |-> FALSE, split_point |-> Least(stops) + 1]

\* for i in range(i, lo, -1): if text[i] in [...]: split_point = i + 1; break
\* -1 is the code's "none found"; IndexError is the exception of text[i]
\* the scan stops at the highest index of i, i-1, ..., lo+1 that is out of
\* range or holds a terminal
ScanBack(s, i, lo) ==
    LET stops == {k \in (lo + 1)..i : ~IndexOk(s, k) \/ PyIndex(s, k) \in Terminals} IN
    IF stops = {} THEN [raised |-> FALSE, split_point |-> -1]
    ELSE IF ~IndexOk(s, Greatest(stops)) THEN [raised |-> TRUE, split_point |-> -1]
    ELSE [raised |-> FALSE, split_point |-> Greatest(stops) + 1]

\* FindEnd that clamps the end to the end of the text
FindEndClamped(s, st, cs) ==
    LET end == st + cs IN
    IF end < Len(s)
    THEN LET r == ScanBack(s, end, end - Lookback(cs)) IN
         [raised |-> r.raised,
          end |-> IF r.split_point # -1 THEN r.split_point ELSE end]
    ELSE [raised |-> FALSE, end |-> Len(s)]

\* lines 68-84: the end of the slice that begins at st
FindEnd(s, st, cs) ==
    LET end == st + cs IN
    IF end < Len(s)
    THEN LET r == ScanBack(s, end, end - Lookback(cs)) IN
         [raised |-> r.raised,
          end |-> IF r.split_point # -1 THEN r.split_point ELSE end]
    ELSE [raised |-> FALSE, end |-> end]

\* AppendChunk without the strip(): the slice is appended as it was cut
AppendChunkNoStrip(cks, s, st, end) ==
    LET chunk == PySlice(s, st, end) IN
    IF chunk # <<>> THEN Append(cks, chunk) ELSE cks

\* AppendChunk with a minimum length: a one-character chunk is dropped
AppendChunkDropsShort(cks, s, st, end) ==
    LET chunk == Strip(PySlice(s, st, end)) IN
    IF Len(chunk) > 1 THEN Append(cks, chunk) ELSE cks

\* lines 86-88: chunk = text[start:end].strip(); if chunk: chunks.append(chunk)
AppendChunk(cks, s, st, end) ==
    LET chunk == Strip(PySlice(s, st, end)) IN
    IF chunk # <<>> THEN Append(cks, chunk) ELSE cks

\* NextStart without the overlap: the next slice begins at the cut
NextStartNoOverlap(end, ov) == end

\* NextStart whose guard steps over a character: if start >= end: start = end + 1
NextStartSkips(end, ov) == IF end - ov >= end THEN end + 1 ELSE end - ov

\* lines 93-97: start = end - overlap; if start >= end: start = end
NextStart(end, ov) == IF end - ov >= end THEN end ELSE end - ov

\* lines 60-65: if not text: return []; chunks = []; start = 0
ChunkCall ==
    /\ pc = "call"
    /\ pc' = IF text = <<>> THEN "done" ELSE "loop"
    /\ start' = 0
    /\ chunks' = <<>>
    /\ UNCHANGED <<text, chunk_size, overlap, slices, cleanVars, envVars>>

\* lines 67-97: one iteration of the while-loop
ChunkLoop ==
    /\ pc = "loop"
    /\ start < Len(text)
    /\ Len(slices) < MaxIter(text)
    /\ LET r == FindEnd(text, start, chunk_size) IN
       IF r.raised
       THEN /\ pc' = "raised"
            /\ UNCHANGED <<start, chunks, slices>>
       ELSE /\ chunks' = AppendChunk(chunks, text, start, r.end)
            /\ slices' = Append(slices, [start |-> start, end |-> r.end])
            /\ start' = NextStart(r.end, overlap)
            /\ pc' = "loop"
    /\ UNCHANGED <<text, chunk_size, overlap, cleanVars, envVars>>

\* lines 67, 99: the loop condition fails; return chunks
ChunkReturn ==
    /\ pc = "loop"
    /\ ~(start < Len(text))
    /\ pc' = "done"
    /\ UNCHANGED <<text, chunk_size, overlap, start, chunks, slices, cleanVars, envVars>>

----------------------------------------------------------------------------
(* clean_vtt_content *)

\* line 9: re.sub(r'<[^>]+>', '', vtt_text). A match begins at a '<' that is
\* followed by at least one character other than '>' and later by a '>'; it
\* ends at the first such '>'. [^>] matches every other character, a line
\* break and another '<' included.
RECURSIVE StripTags(_)
StripTags(s) ==
    LET opens == {k \in 1..Len(s) : s[k] = "<"} IN
    IF opens = {} THEN s
    ELSE LET i == Least(opens)
             closes == {k \in (i + 2)..Len(s) : s[k] = ">"}
         IN IF i < Len(s) /\ s[i + 1] # ">" /\ closes # {}
            THEN SubSeq(s, 1, i - 1) \o StripTags(SubSeq(s, Least(closes) + 1, Len(s)))
            ELSE SubSeq(s, 1, i) \o StripTags(SubSeq(s, i + 1, Len(s)))

\* line 12: str.splitlines(); a final line break opens no further line
RECURSIVE SplitLines(_)
SplitLines(s) ==
    IF s = <<>> THEN <<>>
    ELSE IF \E j \in 1..Len(s) : s[j] = "\n"
         THEN LET j == CHOOSE k \in 1..Len(s) :
                           s[k] = "\n" /\ \A m \in 1..(k - 1) : s[m] # "\n"
              IN <<SubSeq(s, 1, j - 1)>> \o SplitLines(SubSeq(s, j + 1, Len(s)))
         ELSE <<s>>

\* x in line, for a str x
Contains(s, x) ==
    \E i \in 0..(Len(s) - Len(x)) : SubSeq(s, i + 1, i + Len(x)) = x

\* line 17: the markers of a header or timing line
Markers == {<<"WEBVTT">>, <<"Kind:">>, <<"Language:">>, <<"-", "-", ">">>}

Digits == {"0", "1", "2", "3", "4", "5", "6", "7", "8", "9"}

\* line 20: str.isdigit()
IsDigit(s) == s # <<>> /\ \A i \in 1..Len(s) : s[i] \in Digits

\* html.unescape of one character reference
UnescapeRef(c) ==
    CASE c = "&lt;" -> "<"
      [] c = "&gt;" -> ">"
      [] c = "&amp;" -> "&"
      [] c = "&#49;" -> "1"
      [] c = "&#32;" -> " "
      [] OTHER -> c

\* line 24: html.unescape(line), one pass over the line
Unescape(s) == [i \in 1..Len(s) |-> UnescapeRef(s[i])]

\* FilterLine without the test of line 25: a line that is empty once decoded
\* is appended all the same
FilterLineKeepsEmpty(cl, ln) ==
    LET line == Strip(ln) IN
    IF line = <<>> \/ \E x \in Markers : Contains(line, x) THEN cl
    ELSE IF IsDigit(line) THEN cl
    ELSE Append(cl, Strip(Unescape(line)))

\* FilterLine that looks for a marker at the beginning of the line only
FilterLineMarkerAtStart(cl, ln) ==
    LET line == Strip(ln) IN
    IF line = <<>> \/ \E x \in Markers : Len(x) <= Len(line) /\ SubSeq(line, 1, Len(x)) = x
    THEN cl
    ELSE IF IsDigit(line) THEN cl
    ELSE LET decoded == Strip(Unescape(line)) IN
         IF decoded # <<>> THEN Append(cl, decoded) ELSE cl

\* lines 15-26: what one line adds to clean_lines
FilterLine(cl, ln) ==
    LET line == Strip(ln) IN
    IF line = <<>> \/ \E x \in Markers : Contains(line, x) THEN cl
    ELSE IF IsDigit(line) THEN cl
    ELSE LET decoded == Strip(Unescape(line)) IN
         IF decoded # <<>> THEN Append(cl, decoded) ELSE cl

\* str.startswith
StartsWith(s, p) == Len(p) <= Len(s) /\ SubSeq(s, 1, Len(p)) = p

\* DedupLine without the elif of line 43: a stale short repeat is appended
DedupLineNoSkip(acc, line) ==
    IF acc = <<>> THEN Append(acc, line)
    ELSE LET last_line == acc[Len(acc)] IN
         IF StartsWith(line, last_line) THEN [acc EXCEPT ![Len(acc)] = line]
         ELSE Append(acc, line)

\* DedupLine with the replacement of line 41 turned into an append: a line
\* that extends the last fragment is kept next to it
DedupLineKeepsBoth(acc, line) ==
    IF acc = <<>> THEN Append(acc, line)
    ELSE LET last_line == acc[Len(acc)] IN
         IF StartsWith(line, last_line) THEN Append(acc, line)
         ELSE IF StartsWith(last_line, line) THEN acc
         ELSE Append(acc, line)

\* DedupLine that joins a new line onto the last fragment instead of
\* appending it
DedupLineJoins(acc, line) ==
    IF acc = <<>> THEN Append(acc, line)
    ELSE LET last_line == acc[Len(acc)] IN
         IF StartsWith(line, last_line) THEN [acc EXCEPT ![Len(acc)] = line]
         ELSE IF StartsWith(last_line, line) THEN acc
         ELSE [acc EXCEPT ![Len(acc)] = last_line \o <<" ">> \o line]

\* lines 33-46: what one filtered line does to final_text_chunks
DedupLine(acc, line) ==
    IF acc = <<>> THEN Append(acc, line)
    ELSE LET last_line == acc[Len(acc)] IN
         IF StartsWith(line, last_line) THEN [acc EXCEPT ![Len(acc)] = line]
         ELSE IF StartsWith(last_line, line) THEN acc
         ELSE Append(acc, line)

\* line 49: " ".join(final_text_chunks)
RECURSIVE JoinWith(_, _)
JoinWith(ss, sep) ==
    IF ss = <<>> THEN <<>>
    ELSE IF Len(ss) = 1 THEN ss[1]
    ELSE ss[1] \o sep \o JoinWith(Tail(ss), sep)

\* line 51: re.sub(r'\s+', ' ', full_text)
RECURSIVE CollapseSpaces(_)
CollapseSpaces(s) ==
    LET ws == {k \in 1..Len(s) : s[k] \in Whitespace} IN
    IF ws = {} THEN s
    ELSE SubSeq(s, 1, Least(ws) - 1) \o <<" ">>
             \o CollapseSpaces(LStrip(SubSeq(s, Least(ws), Len(s))))

\* lines 49-51
Flatten(acc) == Strip(CollapseSpaces(JoinWith(acc, <<" ">>)))

\* line 56: width=100
WrapWidth == 100

\* len() of a str held as a sequence of one-character strings and character
\* references
RECURSIVE StrLen(_)
StrLen(s) ==
    IF s = <<>> THEN 0
    ELSE IF Len(s) = 1 THEN Len(s[1])
    ELSE StrLen(SubSeq(s, 1, Len(s) \div 2)) + StrLen(SubSeq(s, Len(s) \div 2 + 1, Len(s)))

\* the letters, the \w characters and textwrap's word_punct among the
\* characters of the streams below
Letters == {"A", "B", "C", "D", "H", "c", "d", "e", "l", "o", "r", "w", "x", "y", "z"}

WordChars == Letters \cup Digits \cup {"_"}

WordPunct == WordChars \cup {"!", "\"", "'", "&", ".", ",", "?"}

IsLetterAt(s, k) == k \in 1..Len(s) /\ s[k] \in Letters

\* wordsep_re, "hyphenated word": the hyphen at e has two letters, or letter
\* hyphen letter, before it and letter, optional hyphen, letter after it
HyphenBreak(s, e) ==
    /\ e \in 1..Len(s) /\ s[e] = "-"
    /\ \/ IsLetterAt(s, e - 2) /\ IsLetterAt(s, e - 1)
       \/ IsLetterAt(s, e - 3) /\ e > 2 /\ s[e - 2] = "-" /\ IsLetterAt(s, e - 1)
    /\ IsLetterAt(s, e + 1)
    /\ \/ IsLetterAt(s, e + 2)
       \/ e + 2 <= Len(s) /\ s[e + 2] = "-" /\ IsLetterAt(s, e + 3)

\* the length of the run of hyphens that begins at i
RECURSIVE DashRun(_, _)
DashRun(s, i) == IF i \in 1..Len(s) /\ s[i] = "-" THEN 1 + DashRun(s, i + 1) ELSE 0

\* wordsep_re, "em-dash": -{2,} at i, after a word_punct character and before
\* a \w character
EmDashAt(s, i) ==
    /\ i > 1 /\ s[i - 1] \in WordPunct
    /\ DashRun(s, i) >= 2
    /\ i + DashRun(s, i) <= Len(s) /\ s[i + DashRun(s, i)] \in WordChars

\* wordsep_re, "word, possibly hyphenated": the lazy match that begins at i
\* stops at the first e where the word ends, an em-dash follows, or the next
\* character is a breaking hyphen, which it takes along
WordEnd(s, i) ==
    LET e == Least({k \in i..Len(s) :
                       \/ HyphenBreak(s, k + 1)
                       \/ k = Len(s)
                       \/ s[k + 1] = " "
                       \/ EmDashAt(s, k + 1)})
    IN IF HyphenBreak(s, e + 1) THEN e + 1 ELSE e

\* TextWrapper._split with break_on_hyphens, on a text whose only whitespace
\* is single spaces: the chunks of s from index i on
RECURSIVE SplitFrom(_, _)
SplitFrom(s, i) ==
    IF i > Len(s) THEN <<>>
    ELSE LET e == IF s[i] = " " THEN i
                  ELSE IF EmDashAt(s, i) THEN i + DashRun(s, i) - 1
                  ELSE WordEnd(s, i)
         IN <<SubSeq(s, i, e)>> \o SplitFrom(s, e + 1)

WrapSplit(s) == SplitFrom(s, 1)

\* TextWrapper._wrap_chunks, inner loop: the chunks that fit on the line
RECURSIVE TakeFitting(_, _, _)
TakeFitting(chs, cur, len) ==
    IF chs # <<>> /\ len + StrLen(Head(chs)) <= WrapWidth
    THEN TakeFitting(Tail(chs), cur \o <<Head(chs)>>, len + StrLen(Head(chs)))
    ELSE [cur_line |-> cur, cur_len |-> len, rest |-> chs]

\* the longest prefix of a word that is at most n characters wide
TakeWidth(w, n) ==
    SubSeq(w, 1, Greatest({k \in 0..Min(Len(w), n) : StrLen(SubSeq(w, 1, k)) <= n}))

\* _handle_long_word with break_on_hyphens: the part that fits is cut after
\* its last hyphen when that hyphen is not the first character and has a
\* character other than a hyphen before it
HyphenCut(part) ==
    LET hs == {h \in 2..Len(part) :
                  part[h] = "-" /\ \E k \in 1..(h - 1) : part[k] # "-"}
    IN IF hs = {} THEN part
       ELSE SubSeq(part, 1, CHOOSE h \in hs : \A g \in hs : g <= h)

\* TextWrapper._handle_long_word with break_long_words: a word wider than the
\* width fills what is left of the line and goes on with the rest
HandleLongWord(t) ==
    IF t.rest # <<>> /\ StrLen(Head(t.rest)) > WrapWidth
    THEN LET part == HyphenCut(TakeWidth(Head(t.rest), WrapWidth - t.cur_len)) IN
         [cur_line |-> t.cur_line \o <<part>>,
          cur_len |-> t.cur_len + StrLen(part),
          rest |-> <<SubSeq(Head(t.rest), Len(part) + 1, Len(Head(t.rest)))>>
                       \o Tail(t.rest)]
    ELSE t

\* TextWrapper._wrap_chunks with drop_whitespace: the lines of the chunks
RECURSIVE WrapChunks(_, _)
WrapChunks(chs, out) ==
    IF chs = <<>> THEN out
    ELSE LET c0 == IF Head(chs) = <<" ">> /\ out # <<>> THEN Tail(chs) ELSE chs
             t == HandleLongWord(TakeFitting(c0, <<>>, 0))
             kept == IF t.cur_line # <<>> /\ t.cur_line[Len(t.cur_line)] = <<" ">>
                     THEN SubSeq(t.cur_line, 1, Len(t.cur_line) - 1)
                     ELSE t.cur_line
         IN WrapChunks(t.rest,
                       IF kept # <<>> THEN Append(out, JoinWith(kept, <<>>)) ELSE out)

\* line 56: textwrap.fill(full_text, width=100)
Fill(s) == JoinWith(WrapChunks(WrapSplit(s), <<>>), <<"\n">>)

\* lines 49-56
Format(acc) == LET full_text == Flatten(acc) IN
               IF full_text = <<>> THEN <<>> ELSE Fill(full_text)

\* lines 9-13: strip the tags, split into lines
CleanCall ==
    /\ cpc = "call"
    /\ vtt_text' = StripTags(vtt_text)
    /\ lines' = SplitLines(vtt_text')
    /\ clean_lines' = <<>>
    /\ final_text_chunks' = <<>>
    /\ idx' = 0
    /\ cpc' = IF lines' = <<>> THEN "format" ELSE "filter"
    /\ UNCHANGED <<result, returned, chunkVars, envVars>>

\* lines 14-26: the filtering loop takes one line
CleanFilter ==
    /\ cpc = "filter"
    /\ clean_lines' = FilterLine(clean_lines, lines[idx + 1])
    /\ IF idx + 1 < Len(lines)
       THEN idx' = idx + 1 /\ cpc' = "filter"
       ELSE idx' = 0 /\ cpc' = IF clean_lines' = <<>> THEN "format" ELSE "dedup"
    /\ UNCHANGED <<vtt_text, lines, final_text_chunks, result, returned, chunkVars, envVars>>

\* lines 32-46: the deduplication loop takes one filtered line
CleanDedup ==
    /\ cpc = "dedup"
    /\ final_text_chunks' = DedupLine(final_text_chunks, clean_lines[idx + 1])
    /\ IF idx + 1 < Len(clean_lines)
       THEN idx' = idx + 1 /\ cpc' = "dedup"
       ELSE idx' = idx + 1 /\ cpc' = "format"
    /\ UNCHANGED <<vtt_text, lines, clean_lines, result, returned, chunkVars, envVars>>

\* lines 49-56: join, collapse, reflow, return
CleanReturn ==
    /\ cpc = "format"
    /\ result' = Format(final_text_chunks)
    /\ returned' = Append(returned, result')
    /\ cpc' = "done"
    /\ UNCHANGED <<vtt_text, lines, clean_lines, final_text_chunks, idx, chunkVars, envVars>>

\* clean_vtt_content is called on the string it returned
CleanAgain ==
    /\ cpc = "done"
    /\ Len(returned) = 1
    /\ vtt_text' = result
    /\ cpc' = "call"
    /\ UNCHANGED <<lines, clean_lines, final_text_chunks, idx, result, returned, chunkVars, envVars>>

----------------------------------------------------------------------------
(* Inputs *)

\* the texts of length n that hold a character of sp at the positions P and
\* the character fill elsewhere
TextsWith(n, P, fill, sp) ==
    {[i \in 1..n |-> IF i \in P THEN f[i] ELSE fill] : f \in [P -> sp]}

FewPositions == {Q \in SUBSET (1..MaxLen) : Cardinality(Q) <= MaxSpecial}

\* words with a few spaces, sentence ends and line breaks
Texts == UNION {TextsWith(n, P, Letter, Specials) : n \in 0..MaxLen, P \in FewPositions}

\* whitespace only: spaces with a few line breaks and tabs
BlankTexts == UNION {TextsWith(n, P, " ", {"\n", "\t"}) : n \in 0..MaxLen, P \in FewPositions}

ValidArgs(cs, ov) == cs > 0 /\ 0 <= ov /\ ov < cs

\* no call of clean_vtt_content is under way
CleanIdle ==
    /\ vtt_text = <<>>
    /\ lines = <<>>
    /\ clean_lines = <<>>
    /\ final_text_chunks = <<>>
    /\ idx = 0
    /\ result = <<>>
    /\ cpc = "idle"
    /\ returned = <<>>

\* no calls are interleaved
ParIdle ==
    /\ frames = <<>>
    /\ active = 0
    /\ args = <<>>

\* process_url is not running
UrlIdle ==
    /\ skip_media = FALSE /\ enable_comments = FALSE
    /\ total_files = 0 /\ file_i = 0
    /\ clean_text = <<>> /\ safe_title = <<>>
    /\ url_chunks = <<>> /\ url_idx = 0
    /\ j_master = <<>> /\ j_chunks = <<>> /\ m_txt = <<>> /\ m_md = <<>>
    /\ written = <<>> /\ processed_count = 0
    /\ upc = "idle"

\* a dict that is empty, and None
EmptyDict == [empty |-> TRUE, title |-> "", comments |-> <<>>]

NoneValue == [none |-> TRUE, title |-> "", comments |-> <<>>]

\* video is not running
ComIdle ==
    /\ min_likes = 0 /\ filter_keywords = <<>> /\ fmt = "json"
    /\ data = EmptyDict /\ processed = NoneValue
    /\ dir_made = FALSE /\ out_files = {}
    /\ success = FALSE /\ message = "" /\ dpc = "idle"

EnvIdle == ParIdle /\ UrlIdle /\ ComIdle

\* no call of chunk_text is under way
ChunkIdle ==
    /\ text = <<>>
    /\ chunk_size = 1
    /\ overlap = 0
    /\ start = 0
    /\ chunks = <<>>
    /\ slices = <<>>
    /\ pc = "idle"

InitCall(t, cs, ov) ==
    /\ CleanIdle
    /\ EnvIdle
    /\ text = t
    /\ chunk_size = cs
    /\ overlap = ov
    /\ start = 0
    /\ chunks = <<>>
    /\ slices = <<>>
    /\ pc = "call"

\* a call with arguments that meet the contract
Init ==
    \E t \in Texts, cs \in 1..MaxChunkSize :
        \E ov \in 0..(cs - 1) : InitCall(t, cs, ov)

Next == ChunkCall \/ ChunkLoop \/ ChunkReturn

Spec == Init /\ [][Next]_vars

\* a call on a text without a visible character, with arguments that meet the contract
InitBlank ==
    \E t \in BlankTexts, cs \in 1..MaxChunkSize :
        \E ov \in 0..(cs - 1) : InitCall(t, cs, ov)

SpecBlank == InitBlank /\ [][Next]_vars

\* a call with any integer arguments, the contract's violations included
ArgTexts == UNION {[1..n -> {Letter} \cup Specials] : n \in 0..MaxArgLen}

InitArgs ==
    \E t \in ArgTexts, cs \in (0 - MaxArg)..MaxArg, ov \in (0 - MaxArg)..MaxArg :
        InitCall(t, cs, ov)

SpecArgs == InitArgs /\ [][Next]_vars

\* the text of the sentence example, "Sentence one. Sentence two. Sentence three."
ExampleText ==
    <<"S", "e", "n", "t", "e", "n", "c", "e", " ", "o", "n", "e", ".", " ",
      "S", "e", "n", "t", "e", "n", "c", "e", " ", "t", "w", "o", ".", " ",
      "S", "e", "n", "t", "e", "n", "c", "e", " ", "t", "h", "r", "e", "e", ".">>

\* chunk_text on the example text, every valid chunk_size up to MaxExampleArg
InitExample ==
    \E cs \in 1..MaxExampleArg : \E ov \in 0..(cs - 1) : InitCall(ExampleText, cs, ov)

SpecExample == InitExample /\ [][Next]_vars

\* longer words with a few sentence ends, cut with the chunk sizes whose
\* lookback is three characters or more
DeepEnds == {Q \in SUBSET (1..MaxDeepLen) : Cardinality(Q) <= MaxDeepEnds}

DeepTexts == UNION {TextsWith(n, P, Letter, {"."}) : n \in 0..MaxDeepLen, P \in DeepEnds}

InitDeep ==
    \E t \in DeepTexts, cs \in MinDeepChunk..MaxDeepChunk :
        \E ov \in 0..(cs - 1) : InitCall(t, cs, ov)

SpecDeep == InitDeep /\ [][Next]_vars

\* a single run of a non-terminal, non-whitespace character, the run of 50
\* cut with chunk_size=10, overlap=9 among them
InitRun ==
    \E n \in 1..MaxRunLen, cs \in 1..MaxChunkSize :
        \E ov \in 0..(cs - 1) : InitCall([i \in 1..n |-> Letter], cs, ov)

SpecRun == InitRun /\ [][Next]_vars

\* the caption streams whose lines are drawn from a pool of lines
RECURSIVE Streams(_, _)
Streams(pool, n) ==
    IF n = 0 THEN {<<>>}
    ELSE LET shorter == Streams(pool, n - 1) IN
         shorter \cup {Append(ls, l) : ls \in shorter, l \in pool}

\* rolling-window cue lines
CueLines ==
    {<<"A">>, <<"B">>, <<"A", "B">>, <<"A", " ", "B">>, <<"B", " ", "C">>,
     <<"C", " ", "D">>, <<"A", " ", "B", " ", "C">>}

\* lines with markup, headers, cue numbers and character references
RawLines ==
    {<<"A">>, <<"A", " ", "B">>, <<"<", "c", ">", "A">>, <<"&lt;", "c", "&gt;", "A">>,
     <<"WEBVTT">>, <<"1", " ", "-", "-", ">", " ", "2">>, <<"1", "2">>, <<"&#49;">>,
     <<" ">>, <<"A", " ", "-", "-", "&gt;", " ", "B">>, <<"<", "c", ">">>, <<"&#32;">>}

InitClean(ls) ==
    /\ ChunkIdle
    /\ EnvIdle
    /\ vtt_text = JoinWith(ls, <<"\n">>)
    /\ lines = <<>>
    /\ clean_lines = <<>>
    /\ final_text_chunks = <<>>
    /\ idx = 0
    /\ result = <<>>
    /\ cpc = "call"
    /\ returned = <<>>

CleanNext == CleanCall \/ CleanFilter \/ CleanDedup \/ CleanReturn

\* clean_vtt_content on a stream of cue lines
InitDedup == \E ls \in Streams(CueLines, MaxLines) : InitClean(ls)

SpecDedup == InitDedup /\ [][CleanNext]_vars

\* clean_vtt_content on a raw stream, then on its own output
InitRaw == \E ls \in Streams(RawLines, MaxRawLines) : InitClean(ls)

SpecClean == InitRaw /\ [][CleanNext \/ CleanAgain]_vars

\* lines to keep and lines to drop: cue text with and without blanks around
\* it, headers, markers inside cue text, cue numbers, digits that are not
\* alone, half an arrow, character references that decode to a digit and to
\* a blank
FilterLines ==
    {<<"A">>, <<" ", "A", " ", "B", "\t">>, <<>>,
     <<"WEBVTT">>, <<"A", " ", "Kind:", " ", "B">>, <<"Language:", " ", "e">>,
     <<"A", "-", "-", ">", "B">>, <<"-", ">">>,
     <<"1", "2">>, <<"1", " ", "2">>,
     <<"&#49;">>, <<"&#32;">>, <<"&#32;", "A">>}

\* clean_vtt_content on a stream of such lines
InitFilter == \E ls \in Streams(FilterLines, MaxFilterLines) : InitClean(ls)

SpecFilter == InitFilter /\ [][CleanNext]_vars

\* cue lines with well-formed tags, with a stray angle bracket and with none
MarkupLines ==
    {<<"A">>, <<"B">>, <<"<", "c", ">", "C">>, <<"A", " ", "<">>, <<">", " ", "D">>,
     <<"<", ">">>}

\* clean_vtt_content on a stream of such lines
InitMarkup == \E ls \in Streams(MarkupLines, MaxMarkupLines) : InitClean(ls)

SpecMarkup == InitMarkup /\ [][CleanNext]_vars

\* n times the character c
Rep(c, n) == [i \in 1..n |-> c]

\* cue lines around the wrap width: words that fit two to a line or not, a
\* word wider than the width, and hyphenated words that reach the width
WideLines == {<<"A">>,
              Rep("x", WrapWidth \div 2 + 10),
              Rep("y", WrapWidth \div 2 + 10),
              Rep("z", WrapWidth + 1),
              Rep("w", WrapWidth - 2) \o <<"-", "y", "y">>,
              Rep("c", WrapWidth \div 2 - 12) \o <<"-", "d", "d">>}

\* clean_vtt_content on a stream of wide cue lines
InitWrap == \E ls \in Streams(WideLines, MaxWrapLines) : InitClean(ls)

SpecWrap == InitWrap /\ [][CleanNext]_vars

\* a cue timing line, "00:00:0a.000 --> 00:00:0b.000"
Timing(a, b) ==
    <<"0", "0", ":", "0", "0", ":", "0", a, ".", "0", "0", "0", " ", "-", "-", ">", " ",
      "0", "0", ":", "0", "0", ":", "0", b, ".", "0", "0", "0">>

Hello == <<"H", "e", "l", "l", "o">>

HelloWorld == Hello \o <<" ", "w", "o", "r", "l", "d">>

\* the subtitle file of the first example: a header, two cues, the second
\* repeating the first with one more word
BuildingExample ==
    <<(<<"WEBVTT">>), <<>>, Timing("1", "2"), Hello, <<>>, Timing("2", "3"), HelloWorld, <<>>>>

\* header, blank and timing lines, and cue lines that build on one another,
\* narrow and wider than the wrap width
BuildLines == {<<"WEBVTT">>, <<>>, Timing("1", "2"),
               Hello, HelloWorld,
               <<"H", "e", "l", "l", "o", " ", " ", "w", "o", "r", "l", "d">>,
               Rep("x", WrapWidth \div 2 + 10),
               Rep("x", WrapWidth \div 2 + 10) \o <<" ">> \o Rep("y", WrapWidth \div 2 + 10)}

\* clean_vtt_content on the example and on short streams of such lines
InitBuild ==
    \E ls \in Streams(BuildLines, MaxBuildLines) \cup {BuildingExample} : InitClean(ls)

SpecBuild == InitBuild /\ [][CleanNext]_vars

----------------------------------------------------------------------------
(* Interleaved calls *)

\* Both functions keep all they work on in locals (clean_lines, line 13;
\* final_text_chunks, line 31; chunks, start and text_len, lines 63-65): the
\* locals of a call live in its frame. The variables above are the frame of
\* the call that is running; the frames of the suspended calls are kept aside.

\* the locals of the running call
Frame ==
    [text |-> text, chunk_size |-> chunk_size, overlap |-> overlap, start |-> start,
     chunks |-> chunks, slices |-> slices, pc |-> pc,
     vtt_text |-> vtt_text, lines |-> lines, clean_lines |-> clean_lines,
     final_text_chunks |-> final_text_chunks, idx |-> idx, result |-> result,
     cpc |-> cpc, returned |-> returned]

\* the frame of a call that is about to begin
NewFrame(a) ==
    [text |-> IF a.fn = "chunk" THEN a.text ELSE <<>>,
     chunk_size |-> a.chunk_size, overlap |-> a.overlap, start |-> 0,
     chunks |-> <<>>, slices |-> <<>>, pc |-> IF a.fn = "chunk" THEN "call" ELSE "idle",
     vtt_text |-> IF a.fn = "clean" THEN a.text ELSE <<>>,
     lines |-> <<>>, clean_lines |-> <<>>, final_text_chunks |-> <<>>, idx |-> 0,
     result |-> <<>>, cpc |-> IF a.fn = "clean" THEN "call" ELSE "idle",
     returned |-> <<>>]

\* OwnLocals with the two output accumulators held outside the frame, as a
\* module-level list or a mutable default argument would be: the resumed
\* call finds them as the call before it left them
OwnLocalsSharedAccumulator(f) ==
    [f EXCEPT !.final_text_chunks = final_text_chunks, !.chunks = chunks]

\* what a resumed call finds in its locals: what it left there
OwnLocals(f) == f

\* the frame f is the running one
Running(f) ==
    /\ text = f.text /\ chunk_size = f.chunk_size /\ overlap = f.overlap
    /\ start = f.start /\ chunks = f.chunks /\ slices = f.slices /\ pc = f.pc
    /\ vtt_text = f.vtt_text /\ lines = f.lines /\ clean_lines = f.clean_lines
    /\ final_text_chunks = f.final_text_chunks /\ idx = f.idx /\ result = f.result
    /\ cpc = f.cpc /\ returned = f.returned

\* the locals of the running call become those of f
Resume(f) ==
    /\ text' = f.text /\ chunk_size' = f.chunk_size /\ overlap' = f.overlap
    /\ start' = f.start /\ chunks' = f.chunks /\ slices' = f.slices /\ pc' = f.pc
    /\ vtt_text' = f.vtt_text /\ lines' = f.lines /\ clean_lines' = f.clean_lines
    /\ final_text_chunks' = f.final_text_chunks /\ idx' = f.idx /\ result' = f.result
    /\ cpc' = f.cpc /\ returned' = f.returned

\* the scheduler suspends the running call and resumes the call p
Switch(p) ==
    /\ p \in DOMAIN frames /\ p # active
    /\ frames' = [frames EXCEPT ![active] = Frame]
    /\ active' = p
    /\ Resume(OwnLocals(frames[p]))
    /\ UNCHANGED <<args, urlVars, comVars>>

\* the calls that are interleaved: clean_vtt_content on short streams and
\* chunk_text on short texts
CleanArgs(ls) ==
    [fn |-> "clean", text |-> JoinWith(ls, <<"\n">>), chunk_size |-> 1, overlap |-> 0]

ChunkArgs(t, cs, ov) == [fn |-> "chunk", text |-> t, chunk_size |-> cs, overlap |-> ov]

ParInputs ==
    {CleanArgs(<<(<<"A">>), <<"A", " ", "B">>, <<"A">>>>),
     CleanArgs(<<(<<"<", "c", ">", "B">>), <<"WEBVTT">>, <<"C", " ", "D">>>>),
     ChunkArgs(<<"x", "x", ".", " ", "x">>, 2, 1),
     ChunkArgs(<<"x", ".", "x", "x", "x", " ", "x">>, 4, 2)}

\* MaxCalls calls have been made and none has taken a step; the first runs
InitPar ==
    /\ args \in [1..MaxCalls -> ParInputs]
    /\ frames = [p \in 1..MaxCalls |-> NewFrame(args[p])]
    /\ active = 1
    /\ Running(NewFrame(args[1]))
    /\ UrlIdle
    /\ ComIdle

ParNext == Next \/ CleanNext \/ \E p \in 1..MaxCalls : Switch(p)

SpecPar == InitPar /\ [][ParNext]_vars

----------------------------------------------------------------------------
(* The two functions as their callers see them *)

\* the lines of ls filtered in order (lines 14-26)
RECURSIVE FilterAll(_, _)
FilterAll(cl, ls) ==
    IF ls = <<>> THEN cl ELSE FilterAll(FilterLine(cl, Head(ls)), Tail(ls))

\* the filtered lines of cl folded in order (lines 32-46)
RECURSIVE DedupAll(_, _)
DedupAll(acc, cl) ==
    IF cl = <<>> THEN acc ELSE DedupAll(DedupLine(acc, Head(cl)), Tail(cl))

\* what clean_vtt_content returns for raw when nothing else runs
CleanAlone(raw) ==
    Format(DedupAll(<<>>, FilterAll(<<>>, SplitLines(StripTags(raw)))))

\* the loop of chunk_text from the cursor st on, when nothing else runs
RECURSIVE ChunkFrom(_, _, _, _, _)
ChunkFrom(t, cs, ov, st, cks) ==
    IF st < Len(t)
    THEN LET r == FindEnd(t, st, cs) IN
         ChunkFrom(t, cs, ov, NextStart(r.end, ov), AppendChunk(cks, t, st, r.end))
    ELSE cks

\* what chunk_text returns when nothing else runs
ChunkAlone(t, cs, ov) == IF t = <<>> THEN <<>> ELSE ChunkFrom(t, cs, ov, 0, <<>>)

----------------------------------------------------------------------------
(* process_url, src/src/ytknow/core.py: the loop over the downloaded files, *)
(* on the subtitle path (each file is a .vtt read and cleaned) or with      *)
(* skip_media                                                               *)

\* line 467: chunk_text(clean_text, chunk_size=1000, overlap=100)
UrlChunkSize == 1000
UrlOverlap == 100

\* line 410: [:100]
TitleWidth == 100

\* line 410: re.sub(r'[^\w\-]', '_', video_title)[:100]
SafeTitle(t) ==
    LET u == [k \in 1..Len(t) |-> IF t[k] \in WordChars \cup {"-"} THEN t[k] ELSE "_"]
    IN SubSeq(u, 1, Min(Len(u), TitleWidth))

DigitSeq == <<"0", "1", "2", "3", "4", "5", "6", "7", "8", "9">>

\* str(n) for an int n >= 0, as the f-string of line 470 formats idx
RECURSIVE Decimal(_)
Decimal(n) ==
    IF n < 10 THEN <<DigitSeq[n + 1]>>
    ELSE Decimal(n \div 10) \o <<DigitSeq[(n % 10) + 1]>>

\* ChunkId with the count of enumerate begun at 1
ChunkIdFromOne(title, n) == title \o <<"_">> \o Decimal(n + 1)

\* line 470: f"{safe_title}_{idx}"
ChunkId(title, n) == title \o <<"_">> \o Decimal(n)

\* Persists with the test of line 416 gone
PersistsAlways(ct) == TRUE

\* line 416: if clean_text:
Persists(ct) == ct # <<>>

\* a cue line of one word, wider than half a chunk
LongLine(c) == Rep(c, (3 * UrlChunkSize) \div 5)

\* what the .vtt files hold: nothing, a header and a timing line only, one
\* short cue, two tagged cues, two long cues, three long cues
UrlContents ==
    {JoinWith(ls, <<"\n">>) :
        ls \in {<<>>,
                <<(<<"WEBVTT">>), <<>>, Timing("1", "2")>>,
                <<(<<"WEBVTT">>), <<>>, Timing("1", "2"), Hello>>,
                <<(<<"<", "c", ">", "A">>), <<"A", " ", "B">>>>,
                <<Timing("1", "2"), LongLine("x"), Timing("2", "3"), LongLine("y")>>,
                <<LongLine("x"), LongLine("y"), LongLine("z")>>}}

\* the titles of the videos: plain, with a character that is replaced, and
\* wider than a safe title may be
UrlTitles == {<<"A">>, <<"A", " ", "1">>, Rep("B", TitleWidth + 1)}

\* lines 359-414: the loop takes a file; its text is read and cleaned, the
\* title is made safe and the directory of the video is made
UrlBegin ==
    /\ upc = "file"
    /\ \E content \in UrlContents :
          clean_text' = IF skip_media THEN <<>> ELSE CleanAlone(content)
    /\ \E video_title \in UrlTitles :
          /\ safe_title' = SafeTitle(video_title)
          /\ written' = Append(written,
                               [file |-> file_i, kind |-> "dir", name |-> safe_title'])
    /\ upc' = "persist"
    /\ UNCHANGED <<skip_media, enable_comments, total_files, file_i, url_chunks, url_idx,
                   j_master, j_chunks, m_txt, m_md, processed_count>>
    /\ UNCHANGED <<chunkVars, cleanVars, parVars, comVars>>

\* lines 416-467: with a text, the .txt and .md of the video and the entries
\* of the three master files are written and the text is chunked
UrlPersist ==
    /\ upc = "persist"
    /\ IF Persists(clean_text)
       THEN /\ written' = written \o
                    <<[file |-> file_i, kind |-> "txt", name |-> safe_title],
                      [file |-> file_i, kind |-> "md", name |-> safe_title]>>
            /\ m_txt' = Append(m_txt, [file |-> file_i, text |-> clean_text])
            /\ m_md' = Append(m_md, [file |-> file_i, text |-> clean_text])
            /\ j_master' = Append(j_master, [file |-> file_i, content |-> clean_text])
            /\ url_chunks' = ChunkAlone(clean_text, UrlChunkSize, UrlOverlap)
            /\ url_idx' = 0
            /\ upc' = "chunks"
       ELSE /\ upc' = "comments"
            /\ UNCHANGED <<written, m_txt, m_md, j_master, url_chunks, url_idx>>
    /\ UNCHANGED <<skip_media, enable_comments, total_files, file_i, clean_text,
                   safe_title, j_chunks, processed_count>>
    /\ UNCHANGED <<chunkVars, cleanVars, parVars, comVars>>

\* lines 468-474: the for-loop writes the record of one chunk
UrlWriteChunk ==
    /\ upc = "chunks"
    /\ url_idx < Len(url_chunks)
    /\ j_chunks' = Append(j_chunks, [file |-> file_i,
                                      chunk_id |-> ChunkId(safe_title, url_idx),
                                      content |-> url_chunks[url_idx + 1]])
    /\ url_idx' = url_idx + 1
    /\ UNCHANGED <<skip_media, enable_comments, total_files, file_i, clean_text,
                   safe_title, url_chunks, j_master, m_txt, m_md, written,
                   processed_count, upc>>
    /\ UNCHANGED <<chunkVars, cleanVars, parVars, comVars>>

\* line 468: the for-loop has taken every chunk
UrlChunksDone ==
    /\ upc = "chunks"
    /\ url_idx = Len(url_chunks)
    /\ upc' = "comments"
    /\ UNCHANGED <<skip_media, enable_comments, total_files, file_i, clean_text,
                   safe_title, url_chunks, url_idx, j_master, j_chunks, m_txt, m_md,
                   written, processed_count>>
    /\ UNCHANGED <<chunkVars, cleanVars, parVars, comVars>>

\* lines 486-494: the comments are fetched when asked for, whatever the text
\* (the download may or may not leave a file); the file is counted and the
\* loop goes to the next one or ends
UrlComments ==
    /\ upc = "comments"
    /\ \E saved \in BOOLEAN :
          written' = IF enable_comments /\ saved
                     THEN Append(written, [file |-> file_i, kind |-> "comments",
                                           name |-> safe_title])
                     ELSE written
    /\ processed_count' = processed_count + 1
    /\ IF file_i < total_files
       THEN file_i' = file_i + 1 /\ upc' = "file"
       ELSE file_i' = file_i /\ upc' = "done"
    /\ UNCHANGED <<skip_media, enable_comments, total_files, clean_text, safe_title,
                   url_chunks, url_idx, j_master, j_chunks, m_txt, m_md>>
    /\ UNCHANGED <<chunkVars, cleanVars, parVars, comVars>>

\* lines 354-359: the four master files are open and empty, the loop begins
InitUrl ==
    /\ ChunkIdle /\ CleanIdle /\ ParIdle /\ ComIdle
    /\ skip_media \in BOOLEAN /\ enable_comments \in BOOLEAN
    /\ total_files \in 1..MaxFiles /\ file_i = 1
    /\ clean_text = <<>> /\ safe_title = <<>>
    /\ url_chunks = <<>> /\ url_idx = 0
    /\ j_master = <<>> /\ j_chunks = <<>> /\ m_txt = <<>> /\ m_md = <<>>
    /\ written = <<>> /\ processed_count = 0
    /\ upc = "file"

UrlNext == UrlBegin \/ UrlPersist \/ UrlWriteChunk \/ UrlChunksDone \/ UrlComments

SpecUrl == InitUrl /\ [][UrlNext]_vars

----------------------------------------------------------------------------
(* The video command and download_video_comments, src/src/ytknow/comments.py *)

\* str.lower() on the letters of the comments below
LowerChar(c) == CASE c = "A" -> "a" [] c = "B" -> "b" [] OTHER -> c

Lower(t) == [i \in 1..Len(t) |-> LowerChar(t[i])]

\* lines 136-142: the comment passes the filters. A keyword list that is None
\* or empty filters nothing.
PassesFilters(c, ml, kws) ==
    /\ ~(c.like_count < ml)
    /\ kws # <<>> => \E i \in 1..Len(kws) : Contains(Lower(c.text), Lower(kws[i]))

\* lines 115-166, process_comment_data: None for an empty dict, else the video
\* info and the comments that pass the filters, in their order
ProcessCommentData(raw, ml, kws) ==
    IF raw.empty THEN NoneValue
    ELSE [none |-> FALSE, title |-> raw.title,
          comments |-> SelectSeq(raw.comments, LAMBDA c : PassesFilters(c, ml, kws))]

\* line 170: not data or not data.get("comments")
NothingToSave(d) == d.none \/ d.comments = <<>>

\* lines 179-209: the file that save_output writes for a format, none for a
\* format it does not know
FilesFor(f) ==
    CASE f = "json" -> {"json"}
      [] f = "csv" -> {"csv"}
      [] f = "excel" -> {"xlsx"}
      [] OTHER -> {}

\* line 238: if processed. None is false; the dict of line 163 has two keys
\* and is true whatever they hold
Truthy(d) == ~d.none

\* what yt-dlp can hand back: comments of a few likes and a few words
CommentTexts == {<<"a">>, <<"A", "b">>, <<"b">>}

RawComments == [like_count : 0..MaxLikes, text : CommentTexts]

RawDicts ==
    {[empty |-> FALSE, title |-> t, comments |-> cs] :
        t \in {"T", "None"}, cs \in Streams(RawComments, MaxComments)}

\* line 235: extract_comments_async returns the dict printed by yt-dlp, or {}
\* when yt-dlp fails or prints no JSON (lines 103-113), or raises (no yt-dlp to
\* run), which the except of line 241 turns into return False
DownloadExtract ==
    /\ dpc = "extract"
    /\ \/ \E d \in RawDicts \cup {EmptyDict} :
             /\ data' = d
             /\ dpc' = "process"
             /\ UNCHANGED success
       \/ /\ success' = FALSE
          /\ dpc' = "returned"
          /\ UNCHANGED data
    /\ UNCHANGED <<min_likes, filter_keywords, fmt, processed, dir_made, out_files, message>>
    /\ UNCHANGED <<chunkVars, cleanVars, parVars, urlVars>>

\* line 236: processed = process_comment_data(data, min_likes, filter_keywords)
DownloadProcess ==
    /\ dpc = "process"
    /\ processed' = ProcessCommentData(data, min_likes, filter_keywords)
    /\ dpc' = "save"
    /\ UNCHANGED <<min_likes, filter_keywords, fmt, data, dir_made, out_files, success, message>>
    /\ UNCHANGED <<chunkVars, cleanVars, parVars, urlVars>>

\* lines 238-244 and save_output, lines 168-209: a title that is None makes
\* line 175 raise after the directory was made, and line 241 catches it
DownloadSave ==
    /\ dpc = "save"
    /\ IF Truthy(processed)
       THEN IF NothingToSave(processed)
            THEN /\ success' = TRUE
                 /\ UNCHANGED <<dir_made, out_files>>
            ELSE /\ dir_made' = TRUE
                 /\ IF processed.title = "None"
                    THEN success' = FALSE /\ UNCHANGED out_files
                    ELSE success' = TRUE /\ out_files' = out_files \cup FilesFor(fmt)
       ELSE /\ success' = FALSE
            /\ UNCHANGED <<dir_made, out_files>>
    /\ dpc' = "returned"
    /\ UNCHANGED <<min_likes, filter_keywords, fmt, data, processed, message>>
    /\ UNCHANGED <<chunkVars, cleanVars, parVars, urlVars>>

\* lines 262-265: the video command reports
VideoReport ==
    /\ dpc = "returned"
    /\ message' = IF success THEN "Comments processed."
                  ELSE "No comments found or extraction failed."
    /\ dpc' = "done"
    /\ UNCHANGED <<min_likes, filter_keywords, fmt, data, processed, dir_made, out_files, success>>
    /\ UNCHANGED <<chunkVars, cleanVars, parVars, urlVars>>

\* lines 247-260: video calls download_video_comments with its options; the
\* output directory holds no file yet
InitVideo ==
    /\ ChunkIdle /\ CleanIdle /\ ParIdle /\ UrlIdle
    /\ min_likes \in 0..(MaxLikes + 1)
    /\ filter_keywords \in {<<>>, <<(<<"a">>)>>, <<(<<"b">>)>>, <<(<<"c">>), <<"B">>>>}
    /\ fmt \in {"json", "csv", "excel", "xml"}
    /\ data = EmptyDict /\ processed = NoneValue
    /\ dir_made = FALSE /\ out_files = {}
    /\ success = FALSE /\ message = "" /\ dpc = "extract"

VideoNext == DownloadExtract \/ DownloadProcess \/ DownloadSave \/ VideoReport

SpecVideo == InitVideo /\ [][VideoNext]_vars

----------------------------------------------------------------------------
(* Properties *)

Valid == ValidArgs(chunk_size, overlap)

\* the slice text[start:end] of iteration k
SliceText(k) == PySlice(text, slices[k].start, slices[k].end)

\* the cursor had this value at the head of an earlier iteration; the loop
\* reads nothing but the cursor and the arguments, so it then repeats the
\* iterations since and never exits
CursorRepeats == pc = "loop" /\ \E k \in 1..Len(slices) : slices[k].start = start

HasVisible(s) == \E i \in 1..Len(s) : s[i] \notin Whitespace

\* C1: for valid arguments chunk_text terminates: its loop never comes back to
\* a cursor it has already been at (the loop is deterministic in the cursor,
\* so a repeated cursor is an endless loop), and no read raises.
C1_Terminates == Valid => ~CursorRepeats /\ pc # "raised"

\* C2: a call whose arguments break the contract (chunk_size <= 0, overlap < 0
\* or overlap >= chunk_size) ends in an invalid-argument error: on a non-empty
\* text it never returns a list, never loops for ever and never fails on a
\* read of the text instead.
C2_InvalidArgsRejected ==
    (~Valid /\ text # <<>>) => pc \notin {"done", "raised"} /\ ~CursorRepeats

\* C3: the filtered lines "A", "A B", "B C", "C D" give "A B C D".
C3_RollingWindow ==
    (cpc = "done" /\ Len(returned) = 1 /\
     clean_lines = <<(<<"A">>), <<"A", " ", "B">>, <<"B", " ", "C">>, <<"C", " ", "D">>>>)
        => result = <<"A", " ", "B", " ", "C", " ", "D">>

\* C4: after every step of the deduplication, of two adjacent fragments of
\* the accumulator neither starts with the other.
C4_NoAdjacentPrefix ==
    \A i \in 1..(Len(final_text_chunks) - 1) :
        /\ ~StartsWith(final_text_chunks[i], final_text_chunks[i + 1])
        /\ ~StartsWith(final_text_chunks[i + 1], final_text_chunks[i])

\* the line "B C" has just replaced the fragment "B", which follows "A"
C4_Witness ==
    /\ cpc \in {"dedup", "format"}
    /\ idx = 3
    /\ SubSeq(clean_lines, 1, 3) = <<(<<"A">>), <<"B">>, <<"B", " ", "C">>>>
    /\ final_text_chunks = <<(<<"A">>), <<"B", " ", "C">>>>

\* C5: clean_vtt_content applied to its own output returns that output.
C5_Idempotent == Len(returned) = 2 => returned[2] = returned[1]

\* C6: when chunk_text returns (valid arguments), the chunks are exactly the
\* non-empty trimmed slices in order, every non-whitespace position of the
\* text lies in a slice, the slices begin at 0 and at increasing positions, and
\* each begins no later than the one before it ended.
C6_Coverage ==
    (Valid /\ pc = "done") =>
        /\ chunks = SelectSeq([k \in 1..Len(slices) |-> Strip(SliceText(k))],
                              LAMBDA c : c # <<>>)
        /\ \A p \in 0..(Len(text) - 1) :
               text[p + 1] \notin Whitespace =>
                   \E k \in 1..Len(slices) : slices[k].start <= p /\ p < slices[k].end
        /\ slices # <<>> => slices[1].start = 0
        /\ \A k \in 1..(Len(slices) - 1) :
               /\ slices[k].start < slices[k + 1].start
               /\ slices[k + 1].start <= slices[k].end

\* a return after three or more chunks that overlap, one of them cut short of
\* or past start + chunk_size
C6_Witness ==
    /\ pc = "done"
    /\ Len(chunks) >= 3
    /\ overlap > 0
    /\ \E k \in 1..(Len(slices) - 1) : slices[k].end # slices[k].start + chunk_size

C8_ChunkWithinSize == Valid => \A k \in 1..Len(chunks) : Len(chunks[k]) <= chunk_size

\* C9: every element of chunks is non-empty and neither begins nor ends with
\* whitespace, and a slice adds an element only if it holds a non-whitespace
\* character.
C9_ChunksTrimmed ==
    /\ \A k \in 1..Len(chunks) :
           /\ chunks[k] # <<>>
           /\ Head(chunks[k]) \notin Whitespace
           /\ chunks[k][Len(chunks[k])] \notin Whitespace
    /\ Len(chunks) = Cardinality({k \in 1..Len(slices) : HasVisible(SliceText(k))})

\* a slice of whitespace only was passed over, and a chunk is shorter than
\* the slice it was trimmed from
C9_Witness ==
    /\ \E k \in 1..Len(slices) : SliceText(k) # <<>> /\ ~HasVisible(SliceText(k))
    /\ \E k \in 1..Len(slices) :
           HasVisible(SliceText(k)) /\ Len(Strip(SliceText(k))) < Len(SliceText(k))

\* C10: for an empty or whitespace-only text and valid arguments chunk_text
\* returns the empty list: the call ends, and it ends with no chunk.
C10_DegenerateReturnsEmpty ==
    (Valid /\ ~HasVisible(text)) =>
        /\ ~CursorRepeats
        /\ pc # "raised"
        /\ pc = "done" => chunks = <<>>


\* C11: the text clean_vtt_content returns never contains the timing arrow
\* "-->", also when an input line carries entities that are decoded only
\* after the line filter has looked at it.
C11_NoArrowInOutput ==
    cpc = "done" => ~Contains(result, <<"-", "-", ">">>)

\* C12: the text clean_vtt_content returns contains no angle-bracket tag: no
\* "<" is followed, anywhere later in the text, by a ">".
C12_NoTagInOutput ==
    cpc = "done" =>
        ~\E i, j \in 1..Len(result) : i < j /\ result[i] = "<" /\ result[j] = ">"


\* the text with each of its line breaks replaced by a space
Unbreak(s) == [i \in 1..Len(s) |-> IF s[i] = "\n" THEN " " ELSE s[i]]

\* C13: the reflow is cosmetic: the returned text with every line break
\* replaced by a space is the flattened text (the fragments joined by spaces,
\* whitespace collapsed, trimmed), also when it holds a word wider than the
\* wrap width or a hyphenated word.
C13_ReflowKeepsText ==
    cpc = "done" => Unbreak(result) = Flatten(final_text_chunks)


\* every filtered line starts with the filtered line before it
Building == clean_lines # <<>> /\
            \A i \in 2..Len(clean_lines) : StartsWith(clean_lines[i], clean_lines[i - 1])

\* the last filtered line, whitespace-collapsed
LastLine == Strip(CollapseSpaces(clean_lines[Len(clean_lines)]))

CutsWord(s, p) ==
    p \in 1..(Len(s) - 1) /\ s[p] \notin Whitespace /\ s[p + 1] \notin Whitespace

\* C15: chunk_text("Sentence one. Sentence two. Sentence three.", 15, 3)
\* returns at least two chunks, and no chunk begins or ends in the middle of
\* a word: neither end of a slice falls between two characters of a word.
C15_ExampleCutsAtWords ==
    (pc = "done" /\ text = ExampleText /\ chunk_size = 15 /\ overlap = 3) =>
        /\ Len(chunks) >= 2
        /\ \A k \in 1..Len(slices) :
               /\ ~CutsWord(text, PyBound(text, slices[k].start))
               /\ ~CutsWord(text, PyBound(text, slices[k].end))


\* the quotient a / b rounded up, for a >= 0 and b > 0
CeilDiv(a, b) == (a + b - 1) \div b

\* C16: for valid arguments the loop of chunk_text runs at most
\* ceil(len(text) / (chunk_size - overlap)) times, snapped cuts included: the
\* iterations made so far never exceed that number.
C16_IterationBound ==
    Valid => Len(slices) <= CeilDiv(Len(text), chunk_size - overlap)


\* C17: clean_vtt_content returns the empty string when no line survives the
\* filter (empty or whitespace-only input, only header, timing, digit or
\* tag-only lines) and a non-empty string when at least one line survives.
C17_EmptyIffNoLineSurvives ==
    cpc = "done" => (result = <<>> <=> clean_lines = <<>>)

\* a tag-only line, a line that decodes to a space and a header line were
\* read; none survived and the empty string is returned
C17_Witness ==
    /\ cpc = "done"
    /\ lines = <<(<<>>), <<"&#32;">>, <<"WEBVTT">>>>
    /\ clean_lines = <<>>
    /\ result = <<>>


\* the locals of call p, running or suspended
FrameOf(p) == IF p = active THEN Frame ELSE frames[p]

\* C18: calls are independent: however two or more executions of
\* clean_vtt_content and chunk_text are interleaved, each returns what it
\* returns when it runs alone (so two executions with the same arguments
\* return the same).
C18_CallsIndependent ==
    \A p \in DOMAIN frames :
        /\ FrameOf(p).cpc = "done" => FrameOf(p).result = CleanAlone(args[p].text)
        /\ FrameOf(p).pc = "done" =>
               FrameOf(p).chunks =
                   ChunkAlone(args[p].text, args[p].chunk_size, args[p].overlap)

\* two calls of clean_vtt_content on different inputs have both returned, and
\* the first was suspended in the middle of its deduplication loop
C18_Witness ==
    /\ DOMAIN frames = 1..MaxCalls
    /\ args[1].fn = "clean" /\ args[2].fn = "clean" /\ args[1] # args[2]
    /\ FrameOf(1).cpc = "done" /\ FrameOf(2).cpc = "done"
    /\ active = 1
    /\ frames[2].result # <<>>
    /\ frames[1].cpc = "dedup" /\ frames[1].idx = 1


\* the number written after the last "_" of a chunk_id
RECURSIVE ToNumber(_)
ToNumber(ds) ==
    IF ds = <<>> THEN 0
    ELSE 10 * ToNumber(SubSeq(ds, 1, Len(ds) - 1))
         + (CHOOSE d \in 0..9 : DigitSeq[d + 1] = ds[Len(ds)])

SuffixOf(id) ==
    ToNumber(SubSeq(id, Greatest({k \in 1..Len(id) : id[k] = "_"}) + 1, Len(id)))

\* the chunk records written for file f, in the order written
RecordsOf(f) == SelectSeq(j_chunks, LAMBDA r : r.file = f)

\* C19: the chunk records process_url writes for one transcript carry the
\* indices 0, 1, ..., n-1 as the numeric suffix of chunk_id, without gap or
\* repeat, in the order in which chunk_text returned the n chunks.
C19_ChunkIndicesContiguous ==
    /\ \A f \in 1..file_i : \A k \in 1..Len(RecordsOf(f)) :
           SuffixOf(RecordsOf(f)[k].chunk_id) = k - 1
    /\ (upc \in {"chunks", "comments"} /\ Persists(clean_text)) =>
           /\ Len(RecordsOf(file_i)) = url_idx
           /\ \A k \in 1..url_idx : RecordsOf(file_i)[k].content = url_chunks[k]
           /\ upc = "comments" => url_idx = Len(url_chunks)

\* a transcript of three chunks has been written out under the title "A_1"
C19_Witness ==
    /\ upc = "comments"
    /\ safe_title = <<"A", "_", "1">>
    /\ Len(url_chunks) >= 3
    /\ Len(RecordsOf(file_i)) = Len(url_chunks)

\* C20: when the cleaned text of a file is the empty string, process_url
\* persists nothing for that file: no record in the master JSONL, no record
\* in the chunks JSONL, no .txt or .md of the video.
C20_EmptyTextPersistsNothing ==
    (upc \in {"persist", "chunks", "comments", "done"} /\ clean_text = <<>>) =>
        /\ \A k \in 1..Len(j_master) : j_master[k].file # file_i
        /\ \A k \in 1..Len(j_chunks) : j_chunks[k].file # file_i
        /\ \A k \in 1..Len(written) :
               written[k].file = file_i => written[k].kind \notin {"txt", "md"}

\* a subtitle file with a header and a timing line but no cue was read, its
\* text is empty, and the loop has gone past the persisting step: only the
\* directory and the comments of the video exist
C20_Witness ==
    /\ upc = "done"
    /\ ~skip_media
    /\ clean_text = <<>>
    /\ \E k \in 1..Len(written) : written[k].file = file_i /\ written[k].kind = "comments"
    /\ j_master = <<>>


\* the cursor after the k-th iteration: the start of the next one, or the
\* cursor as it stands when the k-th is the latest
StartAfter(k) == IF k < Len(slices) THEN slices[k + 1].start ELSE start

\* C21: for valid arguments, after every iteration of the loop the cursor is
\* strictly greater than it was at the beginning of that iteration, also when
\* the cut was snapped back to a sentence-terminal character.
C21_ForwardProgress ==
    (Valid /\ pc \in {"loop", "done"}) =>
        \A k \in 1..Len(slices) : slices[k].start < StartAfter(k)


\* the positions of the text, counted from 0, that hold a sentence-terminal
\* character
TerminalAt == {p \in 0..(Len(text) - 1) : text[p + 1] \in Terminals}

\* the window of the backward search of a slice that begins at st: the
\* floor(0.3 * chunk_size) positions from the candidate end downwards
Window(st) ==
    {p \in TerminalAt : st + chunk_size - ((3 * chunk_size) \div 10) < p
                        /\ p <= st + chunk_size}

Covered(k) == PyBound(text, slices[k].start)..(PyBound(text, slices[k].end) - 1)

\* the positions that the slices of the iterations k and k + 1 both hold
Shared(k) == Covered(k) \cap Covered(k + 1)

\* after every iteration the cursor is the cut of that iteration minus overlap
StartIsCutMinusOverlap ==
    \A k \in 1..Len(slices) : StartAfter(k) = slices[k].end - overlap

PlainRun ==
    text # <<>> /\ \A i \in 1..Len(text) : text[i] \notin Terminals \cup Whitespace

\* C24: on a non-empty text without a sentence-terminal character and without
\* whitespace, for valid arguments, the k-th slice (k from 0) starts at
\* k * (chunk_size - overlap), the call ends, it ends after exactly
\* ceil(len(text) / (chunk_size - overlap)) iterations, and its slices
\* together hold every character of the text.
C24_PlainRunSlices ==
    (Valid /\ PlainRun) =>
        /\ pc # "raised"
        /\ ~CursorRepeats
        /\ \A k \in 1..Len(slices) : slices[k].start = (k - 1) * (chunk_size - overlap)
        /\ pc = "loop" => start = Len(slices) * (chunk_size - overlap)
        /\ pc = "done" =>
               /\ Len(slices) = CeilDiv(Len(text), chunk_size - overlap)
               /\ UNION {Covered(k) : k \in 1..Len(slices)} = 0..(Len(text) - 1)

\* the call on 50 times "x" with chunk_size=10 and overlap=9 has returned
\* after 50 iterations
C24_Witness ==
    /\ pc = "done"
    /\ text = [i \in 1..50 |-> "x"]
    /\ chunk_size = 10
    /\ overlap = 9
    /\ Len(slices) = 50


\* the trimmed line is empty, holds a marker somewhere, is all digits, or is
\* empty once its character references are decoded and it is trimmed again
Discarded(ln) ==
    LET t == Strip(ln) IN
    \/ t = <<>>
    \/ \E i \in 1..Len(t) : t[i] \in {"WEBVTT", "Kind:", "Language:"}
    \/ \E i \in 1..(Len(t) - 2) : t[i] = "-" /\ t[i + 1] = "-" /\ t[i + 2] = ">"
    \/ \A i \in 1..Len(t) : t[i] \in Digits
    \/ \A i \in 1..Len(t) : UnescapeRef(t[i]) \in Whitespace

\* how many lines the filtering loop has taken
Filtered == IF cpc = "filter" THEN idx ELSE Len(lines)

\* C25: the lines that survive the filter are, in their order, the lines
\* taken so far that are not discarded, each trimmed, entity-decoded and
\* trimmed again; a line is discarded exactly when, trimmed, it is empty,
\* contains "WEBVTT", "Kind:", "Language:" or "-->" anywhere, consists of
\* digits only, or is empty after decoding and trimming.
C25_FilterKeepsExactly ==
    cpc \in {"filter", "dedup", "format", "done"} =>
        LET kept == SelectSeq(SubSeq(lines, 1, Filtered), LAMBDA l : ~Discarded(l)) IN
        clean_lines = [k \in 1..Len(kept) |-> Strip(Unescape(Strip(kept[k])))]

\* a line with a marker inside cue text was dropped between two lines that
\* survive, the first one trimmed and the second one decoded
C25_Witness ==
    /\ cpc = "done"
    /\ lines = <<(<<" ", "A", " ", "B", "\t">>), <<"A", " ", "Kind:", " ", "B">>, <<"&#49;">>>>
    /\ clean_lines = <<(<<"A", " ", "B">>), <<"1">>>>


NoAngle(l) == \A i \in 1..Len(l) : l[i] \notin {"<", ">"}

\* C26: tag stripping deletes no line break and no line that holds no angle
\* bracket: the text has as many lines after it as before it, and every line
\* without an angle bracket is the same line afterwards.
C26_StripKeepsLines ==
    [][cpc = "call" =>
          LET before == SplitLines(vtt_text) IN
          /\ Len(lines') = Len(before)
          /\ \A k \in 1..Len(before) : NoAngle(before[k]) => lines'[k] = before[k]]_vars


\* the elements of a are elements of l, met in l in the order they have in a
RECURSIVE Embeds(_, _)
Embeds(a, l) ==
    IF a = <<>> THEN TRUE
    ELSE IF l = <<>> THEN FALSE
    ELSE IF Head(a) = Head(l) THEN Embeds(Tail(a), Tail(l))
    ELSE Embeds(a, Tail(l))

\* the fragments are lines the fold has taken, in the order of those lines
FragmentsAreLines ==
    cpc \in {"dedup", "format", "done"} =>
        Embeds(final_text_chunks, SubSeq(clean_lines, 1, idx))

\* one line of the fold: the accumulator keeps its length or grows by one,
\* and a line that the last fragment starts with leaves it as it was
FoldStep ==
    cpc = "dedup" =>
        /\ Len(final_text_chunks') \in {Len(final_text_chunks), Len(final_text_chunks) + 1}
        /\ (final_text_chunks # <<>>
            /\ StartsWith(final_text_chunks[Len(final_text_chunks)], clean_lines[idx + 1]))
               => final_text_chunks' = final_text_chunks

\* C27: at every step of the deduplication fold each fragment of the
\* accumulator is verbatim one of the filtered lines taken so far, the
\* fragments stand in the order of the lines they came from, the accumulator
\* never gets shorter and grows by at most one per line, and a line that is a
\* prefix of the last fragment leaves the accumulator unchanged.
C27_FoldKeepsLines == [](FragmentsAreLines) /\ [][FoldStep]_vars

\* the fold has appended a line, replaced a fragment with its continuation
\* and passed over a line that the last fragment starts with
C27_Witness ==
    /\ cpc = "format"
    /\ clean_lines = <<(<<"B">>), <<"A">>, <<"A", " ", "B">>, <<"A">>>>
    /\ final_text_chunks = <<(<<"B">>), <<"A", " ", "B">>>>


\* the indices i of the reads text[i] that the backward search of a slice
\* beginning at st makes: from the candidate end down to the first terminal, or
\* down the whole lookback when there is none
ReadIndices(st) ==
    LET cand == st + chunk_size IN
    IF cand < Len(text)
    THEN {i \in (cand - ((3 * chunk_size) \div 10) + 1)..cand :
              Window(st) = {} \/ i >= Greatest(Window(st))}
    ELSE {}

\* C28: for valid arguments the cursor is never negative, every slice has
\* 0 <= start < end, and every index the backward search reads lies in
\* 0..len(text)-1.
C28_BoundsInRange ==
    Valid =>
        /\ pc # "raised"
        /\ start >= 0
        /\ \A k \in 1..Len(slices) :
               /\ 0 <= slices[k].start
               /\ slices[k].start < slices[k].end
               /\ \A i \in ReadIndices(slices[k].start) : 0 <= i /\ i < Len(text)


\* C29: once a slice has reached the end of the text (its end is at or past
\* len(text)) it is the last chunk: no later iteration emits a chunk, which
\* would lie inside that slice.
C29_EndSliceIsLast ==
    Valid =>
        \A k \in 1..Len(slices) :
            slices[k].end >= Len(text) =>
                \A j \in (k + 1)..Len(slices) : ~HasVisible(SliceText(j))


\* the comments of the dict yt-dlp returned that pass min_likes and the
\* keywords
CommentsLeft ==
    SelectSeq(data.comments,
              LAMBDA c : c.like_count >= min_likes
                         /\ (filter_keywords = <<>>
                             \/ \E i \in 1..Len(filter_keywords) :
                                    Contains(Lower(c.text), Lower(filter_keywords[i]))))

\* C30: download_video_comments returns True only if an output file was
\* written: when extraction fails or no comment is left after the filters it
\* returns False, and the video command then prints "No comments found or
\* extraction failed."
C30_TrueOnlyIfWritten ==
    dpc \in {"returned", "done"} =>
        /\ success => out_files # {}
        /\ (data.empty \/ CommentsLeft = <<>>) => ~success
        /\ dpc = "done" =>
               (message = "No comments found or extraction failed." <=> out_files = {})

============================================================================
